---- MODULE Spec2Model ----
(***************************************************************************)
(* Model of the webgate initializer (src/src/main.rs): the boot sequence   *)
(* run by run_initialization, the command executor and tokenizer, the two  *)
(* stream redirection phases, the forked sync daemon and the interactive   *)
(* shell.  Text is modelled as sequences of one-character strings.         *)
(* Writes to standard output are taken to succeed.                         *)
(***************************************************************************)
EXTENDS Integers, Sequences, FiniteSets, TLC

\* ------------------------------------------------------------------ bounds
\* longest raw line given to the tokenizer in SpecParse
MaxLen == 5
\* most lines the interactive shell reads before only end-of-input,
\* open failure or read failure remain
MaxLines == 3

\* --------------------------------------------------- configuration constants
DEFAULT_BINARY_PATH == <<"/","b","i","n">>
MOUNT_POINT_PATH == <<"/","m","n","t">>
LOG_STORAGE_DEVICE_PATH == <<"/","d","e","v","/","s","d","a","1">>
BROWSER_EXECUTABLE_PATH ==
    <<"/","u","s","r","/","b","i","n","/","u","i","/","c","o","n","t","e","n","t","_","s","h","e","l","l">>
BROWSER_DEFAULT_URL ==
    <<"h","t","t","p",":","/","/","w","w","w",".","e","x","a","m","p","l","e",".","c","o","m">>
STDOUT_FILE_DESCRIPTOR == 1
STDERR_FILE_DESCRIPTOR == 2

mount_commands ==
    << <<"m","k","d","i","r"," ","-","p"," ","/","p","r","o","c">>,
       <<"m","k","d","i","r"," ","-","p"," ","/","d","e","v">>,
       <<"m","o","u","n","t"," ","-","t"," ","p","r","o","c"," ","n","o","n","e"," ","/","p","r","o","c">>,
       <<"m","o","u","n","t"," ","-","t"," ","d","e","v","t","m","p","f","s"," ","d","e","v","t","m","p","f","s"," ","/","d","e","v">>,
       <<"m","o","u","n","t"," ","-","t"," ","s","y","s","f","s"," ","s","y","s","f","s"," ","/","s","y","s">> >>

temporary_filesystem_commands ==
    << <<"m","k","d","i","r"," ","-","p"," ","/","d","e","v","/","s","h","m">>,
       <<"m","o","u","n","t"," ","-","t"," ","t","m","p","f","s"," ","-","o"," ","n","o","s","u","i","d",",","n","o","d","e","v",",","u","i","d","=","1","0","0","0",",","g","i","d","=","1","0","0","0",",","m","o","d","e","=","0","7","7","7"," ","s","h","m","f","s"," ","/","d","e","v","/","s","h","m">>,
       <<"m","o","u","n","t"," ","-","t"," ","t","m","p","f","s"," ","-","o"," ","u","i","d","=","1","0","0","0",",","g","i","d","=","1","0","0","0",",","m","o","d","e","=","0","7","7","7"," ","t","m","p","f","s"," ","/","t","m","p">> >>

\* format!("mkdir -p {}", ..) and format!("mount {} {}", ..)
storage_commands ==
    << <<"m","k","d","i","r"," ","-","p"," ">> \o MOUNT_POINT_PATH,
       <<"m","o","u","n","t"," ">> \o LOG_STORAGE_DEVICE_PATH \o <<" ">> \o MOUNT_POINT_PATH >>

BROWSER_ARGUMENTS ==
    << <<"-","-","n","o","-","s","a","n","d","b","o","x">>,
       <<"-","-","i","n","-","p","r","o","c","e","s","s","-","g","p","u">>,
       <<"-","-","s","i","n","g","l","e","-","p","r","o","c","e","s","s">>,
       <<"-","-","o","z","o","n","e","-","p","l","a","t","f","o","r","m","=","d","r","m">>,
       <<"-","-","c","o","n","t","e","n","t","-","s","h","e","l","l","-","h","i","d","e","-","t","o","o","l","b","a","r">> >>

RECURSIVE PushArguments(_, _, _)
\* the loop of start_browser: push(' ') then push_str(argument)
PushArguments(text, arguments, i) ==
    IF i > Len(arguments) THEN text
    ELSE PushArguments(text \o <<" ">> \o arguments[i], arguments, i + 1)

\* the command line start_browser builds
browser_command ==
    PushArguments(BROWSER_EXECUTABLE_PATH, BROWSER_ARGUMENTS, 1)
        \o <<" ">> \o BROWSER_DEFAULT_URL

sync_command == <<"s","y","n","c">>
exit_command == <<"e","x","i","t">>
quit_command == <<"q","u","i","t">>

\* ----------------------------------------------------------- pure functions
\* the locals of parse_shell_command before the scan
ScanStart == [arguments |-> <<>>, current_argument |-> <<>>, inside_quotes |-> FALSE]

\* variant: a space separates tokens inside quotes too
ScanCharacterNoQuoting(st, character) ==
    IF character = "\""
    THEN [st EXCEPT !.inside_quotes = ~st.inside_quotes]
    ELSE IF character = " "
    THEN IF st.current_argument # <<>>
         THEN [st EXCEPT !.arguments = Append(st.arguments, st.current_argument),
                         !.current_argument = <<>>]
         ELSE st
    ELSE [st EXCEPT !.current_argument = Append(st.current_argument, character)]

\* one iteration of the scan loop of parse_shell_command
ScanCharacter(st, character) ==
    IF character = "\""
    THEN [st EXCEPT !.inside_quotes = ~st.inside_quotes]
    ELSE IF character = " " /\ ~st.inside_quotes
    THEN IF st.current_argument # <<>>
         THEN [st EXCEPT !.arguments = Append(st.arguments, st.current_argument),
                         !.current_argument = <<>>]
         ELSE st
    ELSE [st EXCEPT !.current_argument = Append(st.current_argument, character)]

RECURSIVE ScanRange(_, _, _, _)
\* the scan loop over characters lo..hi, left to right (the range is halved
\* to keep the evaluation shallow)
ScanRange(command, lo, hi, st) ==
    IF lo > hi THEN st
    ELSE IF lo = hi THEN ScanCharacter(st, command[lo])
    ELSE LET mid == (lo + hi) \div 2
             left == ScanRange(command, lo, mid, st)
         IN IF left.inside_quotes \in BOOLEAN
            THEN ScanRange(command, mid + 1, hi, left)
            ELSE left

\* the flush after the loop
ScanFinish(st) ==
    IF st.current_argument # <<>>
    THEN Append(st.arguments, st.current_argument)
    ELSE st.arguments

parse_shell_command(command) ==
    ScanFinish(ScanRange(command, 1, Len(command), ScanStart))

\* variant: the default binary path is prefixed to every first token
full_command_path_prefixed(command_parts) ==
    DEFAULT_BINARY_PATH \o <<"/">> \o command_parts[1]

\* the first token as spawned: prefixed with the default binary path unless
\* it starts with '/'
full_command_path(command_parts) ==
    IF command_parts[1][1] = "/"
    THEN command_parts[1]
    ELSE DEFAULT_BINARY_PATH \o <<"/">> \o command_parts[1]

\* argv of the subprocess: Command::new(full_command_path).args(parts[1..])
ShellCommandArgv(command_parts) ==
    <<full_command_path(command_parts)>> \o Tail(command_parts)

\* variant: a failed spawn or a non-zero exit is returned as an error
ExecuteResultStrict(status) ==
    IF status \in {"spawn_failed", "nonzero"} THEN "Err" ELSE "Ok"

\* what execute_shell_command returns for each outcome of the subprocess
ExecuteResult(status) ==
    CASE status = "empty"        -> "Ok"
      [] status = "spawn_failed" -> "Ok"
      [] status = "nonzero"      -> "Ok"
      [] status = "zero"         -> "Ok"

WhiteSpace == {" ", "\n", "\t", "\r"}

RECURSIVE TrimStart(_)
TrimStart(s) ==
    IF s # <<>> /\ Head(s) \in WhiteSpace THEN TrimStart(Tail(s)) ELSE s

RECURSIVE TrimEnd(_)
TrimEnd(s) ==
    IF s # <<>> /\ s[Len(s)] \in WhiteSpace
    THEN TrimEnd(SubSeq(s, 1, Len(s) - 1)) ELSE s

\* variant: only leading white space is removed
TrimLeading(s) == TrimStart(s)

\* str::trim as used on the line read from the console
Trim(s) == TrimEnd(TrimStart(s))

\* variant: main exits with 0 whatever run_initialization returned
MainExitCodeAlwaysZero(res) == 0

\* the exit code main passes to exit() for a result of run_initialization
MainExitCode(res) == IF res = "Ok" THEN 0 ELSE 1

\* variant: the terminal phase is called before the sync daemon is started
BootStepsSwapped ==
    << "create_symbolic_links", "mount_filesystems",
       "redirect_output_to_terminal", "start_sync_process",
       "setup_temporary_filesystems", "mount_log_storage",
       "redirect_output_to_log_file", "start_browser", "interactive_shell" >>

\* the order in which run_initialization calls the step functions
BootSteps ==
    << "create_symbolic_links", "mount_filesystems", "start_sync_process",
       "redirect_output_to_terminal", "setup_temporary_filesystems",
       "mount_log_storage", "redirect_output_to_log_file",
       "start_browser", "interactive_shell" >>

\* variant: no step body is guarded
DebugOnlyStepsNone == {}

\* the steps whose body is guarded by `if DEBUG_MODE`
DebugOnlySteps == {"mount_log_storage", "redirect_output_to_log_file"}

\* variant: the log phase duplicates the console descriptor again
RedirectTargetConsole(f) == "console"

\* the target each redirection phase duplicates onto descriptors 1 and 2
RedirectTarget(f) ==
    IF f = "redirect_output_to_terminal" THEN "console" ELSE "log"

symbolic_links == <<"/bin", "/lib", "/lib64">>

\* the line run_initialization prints before each step
AnnounceText ==
    << "[1/9]: Setting up symbolic links", "[2/9]: Mounting basic filesystems",
       "[3/9]: Starting background sync process",
       "[4/9]: Configuring output redirection",
       "[5/9]: Setting up temporary filesystems",
       "[6/9]: Mounting log storage device", "[7/9]: Setting up logging",
       "[8/9]: Launching web browser", "[9/9]: Starting interactive shell" >>

\* ------------------------------------------------------------------- state
VARIABLES
    debugMode,      \* DEBUG_MODE of the build
    pc,             \* the function the parent control thread is in
    idx,            \* position inside that function (command or link index,
                    \* redirection stage; 0 = its waiting/prompting loop)
    started,        \* number of the last step run_initialization announced
    completed,      \* number of the last step that returned Ok
    initResult,     \* what run_initialization returned to main
    exitCodes,      \* the codes the process has exited with
    fds,            \* target of the parent's descriptors 1 and 2
    lastLine,       \* last line the parent printed and the target it went to
    command,        \* the line given to execute_shell_command / the tokenizer
    command_parts,  \* its tokens
    proc,           \* argv of the parent's subprocess in flight, <<>> if none
    status,         \* outcome of the parent's current executor call
    result,         \* value execute_shell_command returned, not yet consumed
    forkResult,     \* what fork() returned in the parent
    childPc,        \* the sync daemon: "none", "sleep" or "wait"
    childProc,      \* argv of the daemon's subprocess in flight
    childFds,       \* target of the daemon's descriptors 1 and 2
    childStatus,    \* outcome of the daemon's last executor call
    childLastLine,  \* last line the daemon printed and the target it went to
    daemons,        \* number of sync daemons forked so far
    terminalAvail,  \* the terminal device can be opened for writing
    logFileAvail,   \* the log file can be opened/created
    devicePresent,  \* the log storage device path exists
    user_command,   \* the line interactive_shell read last
    linesRead,      \* every line interactive_shell has read, in order
    shellExecs,     \* executor invocations made by interactive_shell
    shellEnd        \* why the interactive shell loop ended

seqVars   == <<pc, idx, started, completed, initResult, exitCodes>>
execVars  == <<command, command_parts, proc, status, result>>
childVars == <<childPc, childProc, childFds, childStatus, childLastLine, daemons>>
envVars   == <<terminalAvail, logFileAvail, devicePresent>>
shellVars == <<user_command, linesRead, shellExecs, shellEnd>>
vars == <<debugMode, seqVars, fds, lastLine, execVars, forkResult,
          childVars, envVars, shellVars>>

Targets == {"initial", "console", "log"}

\* lines over the characters the tokenizer distinguishes
ParseAlphabet == {" ", "\"", "a", "b"}
ParseInputs == UNION {[1..k -> ParseAlphabet] : k \in 0..MaxLen}

\* lines the console may deliver: a blank one, exit and quit with and without
\* surrounding blanks, commands, a pair of quotes (not blank, no tokens) and
\* a last line without terminator; the empty read is end-of-input, not a line
ConsoleLines ==
    { <<" ","\n">>,
      exit_command \o <<"\n">>, <<" ">> \o quit_command \o <<" ","\n">>,
      <<"l","s","\n">>, <<"\"","\"","\n">>,
      exit_command \o <<" ","l","s">> }

\* output_line / output: the text goes to whatever descriptor 1 refers to
Line(text) == [text |-> text, target |-> fds[STDOUT_FILE_DESCRIPTOR]]

InitCommon ==
    /\ idx = 0
    /\ started = 0
    /\ completed = 0
    /\ initResult = "none"
    /\ exitCodes = {}
    /\ fds = [d \in {STDOUT_FILE_DESCRIPTOR, STDERR_FILE_DESCRIPTOR} |-> "initial"]
    /\ lastLine = [text |-> "Initializing system components...", target |-> "initial"]
    /\ command_parts = <<>>
    /\ proc = <<>>
    /\ status = "none"
    /\ result = "none"
    /\ forkResult = "none"
    /\ childPc = "none"
    /\ childProc = <<>>
    /\ childFds = [d \in {STDOUT_FILE_DESCRIPTOR, STDERR_FILE_DESCRIPTOR} |-> "initial"]
    /\ childStatus = "none"
    /\ daemons = 0
    /\ childLastLine = [text |-> "", target |-> "initial"]
    /\ user_command = <<>>
    /\ linesRead = <<>>
    /\ shellExecs = 0
    /\ shellEnd = "none"

\* main has printed its banner and entered run_initialization
Init ==
    /\ debugMode \in BOOLEAN
    /\ pc = "run_initialization"
    /\ command = <<>>
    /\ terminalAvail \in BOOLEAN
    /\ logFileAvail \in BOOLEAN
    /\ devicePresent \in BOOLEAN
    /\ InitCommon

\* ------------------------------------------------------------ boot sequencer
\* the step function returned Ok(()) and `?` let the sequence go on
StepCompleted ==
    /\ completed' = started
    /\ pc' = "run_initialization"
    /\ idx' = 0
    /\ UNCHANGED <<started, initResult, exitCodes>>

\* the step function returned Err and `?` returned it from run_initialization
Propagate ==
    /\ initResult' = "Err"
    /\ pc' = "main"
    /\ idx' = 0
    /\ UNCHANGED <<started, completed, exitCodes>>

\* first position inside a step function
EntryIdx(f) ==
    IF f \in {"create_symbolic_links", "mount_filesystems",
              "setup_temporary_filesystems", "start_browser"}
    THEN 1 ELSE 0

\* output_line("[k/9]: ...") and the call of the step function; the body of
\* steps 6 and 7 is skipped unless DEBUG_MODE
Announce ==
    /\ pc = "run_initialization"
    /\ completed < Len(BootSteps)
    /\ LET k == completed + 1
           f == BootSteps[k]
       IN /\ started' = k
          /\ lastLine' = Line(AnnounceText[k])
          /\ IF f \in DebugOnlySteps /\ ~debugMode
             THEN /\ completed' = k
                  /\ UNCHANGED <<pc, idx>>
             ELSE /\ pc' = f
                  /\ idx' = EntryIdx(f)
                  /\ UNCHANGED completed
    /\ UNCHANGED <<debugMode, initResult, exitCodes, fds, execVars, forkResult,
                   childVars, envVars, shellVars>>

\* all nine steps returned Ok: run_initialization returns Ok(())
RunInitializationReturn ==
    /\ pc = "run_initialization"
    /\ completed = Len(BootSteps)
    /\ initResult' = "Ok"
    /\ pc' = "main"
    /\ lastLine' = Line("Initialization sequence completed successfully")
    /\ UNCHANGED <<debugMode, idx, started, completed, exitCodes, fds, execVars,
                   forkResult, childVars, envVars, shellVars>>

\* main matches on the result and calls exit
MainExit ==
    /\ pc = "main"
    /\ initResult # "none"
    /\ exitCodes' = exitCodes \cup {MainExitCode(initResult)}
    /\ pc' = "exited"
    /\ lastLine' = Line(IF initResult = "Ok"
                        THEN "System initialization completed successfully"
                        ELSE "Check system configuration and try again")
    /\ UNCHANGED <<debugMode, idx, started, completed, initResult, fds, execVars,
                   forkResult, childVars, envVars, shellVars>>

\* one iteration of the loop of create_symbolic_links; a failed link is only
\* reported
CreateSymbolicLink ==
    /\ pc = "create_symbolic_links"
    /\ \E ok \in BOOLEAN :
          lastLine' = Line(IF ok THEN "Created link" ELSE "Failed to create link")
    /\ IF idx < Len(symbolic_links)
       THEN /\ idx' = idx + 1
            /\ UNCHANGED <<pc, started, completed, initResult, exitCodes>>
       ELSE StepCompleted
    /\ UNCHANGED <<debugMode, fds, execVars, forkResult, childVars, envVars,
                   shellVars>>

\* variant: a failed fork is not reported to the caller
SyncProcessResultLenient(r) == "Ok"

\* what start_sync_process returns in the parent for each result of fork()
SyncProcessResult(r) == IF r = "failed" THEN "Err" ELSE "Ok"

\* start_sync_process in the parent: fork() returned -1 or the child's pid
StartSyncProcess ==
    /\ pc = "start_sync_process"
    /\ \E r \in {"failed", "parent"} :
          /\ forkResult' = r
          /\ IF SyncProcessResult(r) = "Err"
             THEN /\ lastLine' = Line("Failed to fork sync process")
                  /\ Propagate
                  /\ UNCHANGED childVars
             ELSE /\ lastLine' = Line("Started background sync process")
                  /\ StepCompleted
                  /\ childPc' = "sleep"
                  /\ childFds' = fds
                  /\ childLastLine' = lastLine
                  /\ daemons' = daemons + 1
                  /\ UNCHANGED <<childProc, childStatus>>
    /\ UNCHANGED <<debugMode, fds, execVars, envVars, shellVars>>

\* --------------------------------------------------------- stream redirector
\* variant: the open() is taken to succeed whatever the device does
CanOpenAlways(f) == TRUE

\* whether the open() of a redirection phase succeeds now
CanOpen(f) ==
    IF f = "redirect_output_to_terminal" THEN terminalAvail ELSE logFileAvail

\* one iteration of the retry loop: open the target; on success print and go
\* on to the two dup2 calls, on failure print, sleep and retry
RedirectOpen ==
    /\ pc \in {"redirect_output_to_terminal", "redirect_output_to_log_file"}
    /\ idx = 0
    /\ IF CanOpen(pc)
       THEN /\ lastLine' = Line(IF pc = "redirect_output_to_terminal"
                                THEN "Redirecting output to the terminal..."
                                ELSE "Redirecting output to a log file!")
            /\ idx' = STDOUT_FILE_DESCRIPTOR
       ELSE /\ lastLine' = Line(IF pc = "redirect_output_to_terminal"
                                THEN "Failed to redirect output to the terminal"
                                ELSE "Failed to redirect to a log file!")
            /\ idx' = 0
    /\ UNCHANGED <<debugMode, pc, started, completed, initResult, exitCodes, fds,
                   execVars, forkResult, childVars, envVars, shellVars>>

\* variant: descriptor 1 is left as it was
DupStdoutSkipped ==
    /\ pc \in {"redirect_output_to_terminal", "redirect_output_to_log_file"}
    /\ idx = STDOUT_FILE_DESCRIPTOR
    /\ idx' = STDERR_FILE_DESCRIPTOR
    /\ UNCHANGED <<debugMode, pc, started, completed, initResult, exitCodes, fds,
                   lastLine, execVars, forkResult, childVars, envVars, shellVars>>

\* libc::dup2(descriptor, STDOUT_FILE_DESCRIPTOR)
DupStdout ==
    /\ pc \in {"redirect_output_to_terminal", "redirect_output_to_log_file"}
    /\ idx = STDOUT_FILE_DESCRIPTOR
    /\ fds' = [fds EXCEPT ![STDOUT_FILE_DESCRIPTOR] = RedirectTarget(pc)]
    /\ idx' = STDERR_FILE_DESCRIPTOR
    /\ UNCHANGED <<debugMode, pc, started, completed, initResult, exitCodes,
                   lastLine, execVars, forkResult, childVars, envVars, shellVars>>

\* variant: descriptor 2 is left as it was
DupStderrSkipped ==
    /\ pc \in {"redirect_output_to_terminal", "redirect_output_to_log_file"}
    /\ idx = STDERR_FILE_DESCRIPTOR
    /\ StepCompleted
    /\ UNCHANGED <<debugMode, fds, lastLine, execVars, forkResult, childVars,
                   envVars, shellVars>>

\* libc::dup2(descriptor, STDERR_FILE_DESCRIPTOR), break, Ok(())
DupStderr ==
    /\ pc \in {"redirect_output_to_terminal", "redirect_output_to_log_file"}
    /\ idx = STDERR_FILE_DESCRIPTOR
    /\ fds' = [fds EXCEPT ![STDERR_FILE_DESCRIPTOR] = RedirectTarget(pc)]
    /\ StepCompleted
    /\ UNCHANGED <<debugMode, lastLine, execVars, forkResult, childVars, envVars,
                   shellVars>>

\* ------------------------------------------------------- log storage polling
\* variant: the wait loop gives up after its first look
PollLogStorageOnce ==
    /\ pc = "mount_log_storage"
    /\ idx = 0
    /\ lastLine' = Line(IF devicePresent
                        THEN "Log storage device detected, proceeding with mount..."
                        ELSE "Log storage device not ready, waiting...")
    /\ idx' = 1
    /\ UNCHANGED <<debugMode, pc, started, completed, initResult, exitCodes, fds,
                   execVars, forkResult, childVars, envVars, shellVars>>

\* one iteration of the wait loop of mount_log_storage
PollLogStorage ==
    /\ pc = "mount_log_storage"
    /\ idx = 0
    /\ IF devicePresent
       THEN /\ lastLine' = Line("Log storage device detected, proceeding with mount...")
            /\ idx' = 1
       ELSE /\ lastLine' = Line("Log storage device not ready, waiting...")
            /\ idx' = 0
    /\ UNCHANGED <<debugMode, pc, started, completed, initResult, exitCodes, fds,
                   execVars, forkResult, childVars, envVars, shellVars>>

\* ---------------------------------------------------------- command executor
CommandListSteps ==
    {"mount_filesystems", "setup_temporary_filesystems", "mount_log_storage"}

\* the command list a step function iterates over
CommandList(f) ==
    CASE f = "mount_filesystems"           -> mount_commands
      [] f = "setup_temporary_filesystems" -> temporary_filesystem_commands
      [] f = "mount_log_storage"           -> storage_commands

\* the line the parent passes to execute_shell_command at its position
CurrentCommand ==
    CASE pc \in CommandListSteps  -> CommandList(pc)[idx]
      [] pc = "start_browser"     -> browser_command
      [] pc = "interactive_shell" -> Trim(user_command)

\* the parent is at a call of execute_shell_command
AtExecutorCall ==
    /\ pc \in CommandListSteps \cup {"start_browser", "interactive_shell"}
    /\ idx >= 1

\* variant: the call returns Ok as soon as the subprocess is spawned
ReturnedWhileRunningOk == "Ok"

\* shell_command.status() returns only when the subprocess has exited:
\* nothing is returned to the caller while it runs
ReturnedWhileRunning == "none"

\* execute_shell_command up to shell_command.status(): tokenize, return Ok
\* for no tokens, qualify, trace when DEBUG_MODE, spawn; a failed spawn is
\* reported and the call returns
ExecuteSpawn ==
    /\ AtExecutorCall
    /\ proc = <<>>
    /\ result = "none"
    /\ command' = CurrentCommand
    /\ command_parts' = parse_shell_command(CurrentCommand)
    /\ shellExecs' = IF pc = "interactive_shell" THEN shellExecs + 1 ELSE shellExecs
    /\ IF command_parts' = <<>>
       THEN /\ status' = "empty"
            /\ result' = ExecuteResult("empty")
            /\ UNCHANGED <<proc, lastLine>>
       ELSE \E spawned \in BOOLEAN :
               IF spawned
               THEN /\ proc' = ShellCommandArgv(command_parts')
                    /\ status' = "running"
                    /\ lastLine' = IF debugMode THEN Line("$ command") ELSE lastLine
                    /\ result' = ReturnedWhileRunning
               ELSE /\ status' = "spawn_failed"
                    /\ result' = ExecuteResult("spawn_failed")
                    /\ lastLine' = Line("Failed to execute command")
                    /\ UNCHANGED proc
    /\ UNCHANGED <<debugMode, seqVars, fds, forkResult, childVars, envVars,
                   user_command, linesRead, shellEnd>>

\* the rest of execute_shell_command: the subprocess exits, a non-zero code
\* is reported, the call returns
ExecuteWait ==
    /\ proc # <<>>
    /\ \E exit_status \in {"zero", "nonzero"} :
          /\ status' = exit_status
          /\ result' = ExecuteResult(exit_status)
          /\ lastLine' = IF exit_status = "nonzero"
                         THEN Line("Command failed with exit code")
                         ELSE lastLine
    /\ proc' = <<>>
    /\ UNCHANGED <<debugMode, seqVars, fds, command, command_parts, forkResult,
                   childVars, envVars, shellVars>>

\* `execute_shell_command(c)?` in the loop of a command-list step: an Err is
\* returned at once, after the last command the step returns Ok(())
CommandListReturn ==
    /\ pc \in CommandListSteps
    /\ idx >= 1
    /\ result # "none"
    /\ result' = "none"
    /\ status' = "none"
    /\ IF result = "Err"
       THEN Propagate /\ UNCHANGED lastLine
       ELSE IF idx < Len(CommandList(pc))
       THEN /\ idx' = idx + 1
            /\ UNCHANGED <<pc, started, completed, initResult, exitCodes, lastLine>>
       ELSE /\ StepCompleted
            /\ lastLine' = IF pc = "mount_log_storage"
                           THEN Line("Log storage device mounted successfully")
                           ELSE lastLine
    /\ UNCHANGED <<debugMode, fds, command, command_parts, proc, forkResult,
                   childVars, envVars, shellVars>>

\* start_browser returns what execute_shell_command returned, and
\* run_initialization applies `?` to it
BrowserReturn ==
    /\ pc = "start_browser"
    /\ result # "none"
    /\ result' = "none"
    /\ status' = "none"
    /\ IF result = "Err" THEN Propagate ELSE StepCompleted
    /\ UNCHANGED <<debugMode, fds, lastLine, command, command_parts, proc,
                   forkResult, childVars, envVars, shellVars>>

\* --------------------------------------------------------- interactive shell
\* variant: a console that cannot be opened or read is returned as an error
ShellLeaveStrict(why) ==
    /\ shellEnd' = why
    /\ IF why \in {"open_failed", "read_failed"} THEN Propagate ELSE StepCompleted

\* interactive_shell leaves its loop and returns Ok(())
ShellLeave(why) ==
    /\ shellEnd' = why
    /\ StepCompleted

\* the prompt is printed, then the console cannot be opened for reading
ShellOpenFail ==
    /\ pc = "interactive_shell"
    /\ idx = 0
    /\ lastLine' = Line("Failed to open console for input")
    /\ ShellLeave("open_failed")
    /\ UNCHANGED <<debugMode, fds, execVars, forkResult, childVars, envVars,
                   user_command, linesRead, shellExecs>>

\* read_line returns Ok(0)
ShellEndOfInput ==
    /\ pc = "interactive_shell"
    /\ idx = 0
    /\ lastLine' = Line("$ ")
    /\ ShellLeave("end_of_input")
    /\ UNCHANGED <<debugMode, fds, execVars, forkResult, childVars, envVars,
                   user_command, linesRead, shellExecs>>

\* read_line returns Err
ShellReadFail ==
    /\ pc = "interactive_shell"
    /\ idx = 0
    /\ lastLine' = Line("Failed to read command from console")
    /\ ShellLeave("read_failed")
    /\ UNCHANGED <<debugMode, fds, execVars, forkResult, childVars, envVars,
                   user_command, linesRead, shellExecs>>

\* read_line returns a line: trim it; a blank line repeats the loop, exit or
\* quit leaves it, anything else goes to execute_shell_command
ShellReadLine ==
    /\ pc = "interactive_shell"
    /\ idx = 0
    /\ Len(linesRead) < MaxLines
    /\ \E line \in ConsoleLines :
          LET trimmed_command == Trim(line) IN
          /\ user_command' = line
          /\ linesRead' = Append(linesRead, line)
          /\ IF trimmed_command = <<>>
             THEN /\ lastLine' = Line("$ ")
                  /\ UNCHANGED <<seqVars, shellEnd>>
             ELSE IF trimmed_command = exit_command \/ trimmed_command = quit_command
             THEN /\ lastLine' = Line("Exiting interactive shell...")
                  /\ ShellLeave("exit_command")
             ELSE /\ lastLine' = Line("$ ")
                  /\ idx' = 1
                  /\ UNCHANGED <<pc, started, completed, initResult, exitCodes,
                                 shellEnd>>
    /\ UNCHANGED <<debugMode, fds, execVars, forkResult, childVars, envVars,
                   shellExecs>>

\* `let _ = execute_shell_command(..)`: the result is dropped and the loop
\* goes back to the prompt
ShellCommandReturn ==
    /\ pc = "interactive_shell"
    /\ idx = 1
    /\ result # "none"
    /\ result' = "none"
    /\ status' = "none"
    /\ idx' = 0
    /\ UNCHANGED <<debugMode, pc, started, completed, initResult, exitCodes, fds,
                   lastLine, command, command_parts, proc, forkResult, childVars,
                   envVars, shellVars>>

\* --------------------------------------------------------------- sync daemon
\* a line the daemon prints goes to whatever its own descriptor 1 refers to
ChildLine(text) == [text |-> text, target |-> childFds[STDOUT_FILE_DESCRIPTOR]]

\* variant: the child leaves its loop when a sync command failed
ChildAfterSyncStrict(sync_status) ==
    IF sync_status \in {"spawn_failed", "nonzero"} THEN "returned" ELSE "sleep"

\* where the child goes after `let _ = execute_shell_command("sync")`: the
\* result is dropped and `loop` starts over with the sleep
ChildAfterSync(sync_status) == "sleep"

\* the child's loop: the sleep is over and execute_shell_command("sync")
\* tokenizes, traces when DEBUG_MODE and spawns or fails to spawn; after a
\* failed spawn the call returns and the loop sleeps again
ChildSync ==
    /\ childPc = "sleep"
    /\ \E spawned \in BOOLEAN :
          IF spawned
          THEN /\ childProc' = ShellCommandArgv(parse_shell_command(sync_command))
               /\ childPc' = "wait"
               /\ childStatus' = "running"
               /\ childLastLine' = IF debugMode THEN ChildLine("$ command")
                                   ELSE childLastLine
          ELSE /\ childStatus' = "spawn_failed"
               /\ childLastLine' = ChildLine("Failed to execute command")
               /\ childPc' = ChildAfterSync("spawn_failed")
               /\ UNCHANGED childProc
    /\ UNCHANGED <<debugMode, seqVars, fds, lastLine, execVars, forkResult,
                   childFds, daemons, envVars, shellVars>>

\* the child's sync subprocess exits; a non-zero code is reported, the
\* result of the call is dropped and the loop sleeps again
ChildWait ==
    /\ childPc = "wait"
    /\ \E exit_status \in {"zero", "nonzero"} :
          /\ childStatus' = exit_status
          /\ childLastLine' = IF exit_status = "nonzero"
                              THEN ChildLine("Command failed with exit code")
                              ELSE childLastLine
          /\ childPc' = ChildAfterSync(exit_status)
    /\ childProc' = <<>>
    /\ UNCHANGED <<debugMode, seqVars, fds, lastLine, execVars, forkResult,
                   childFds, daemons, envVars, shellVars>>

\* --------------------------------------------------------------- environment
\* the terminal device appears or disappears
TerminalChange ==
    /\ terminalAvail' = ~terminalAvail
    /\ UNCHANGED <<debugMode, seqVars, fds, lastLine, execVars, forkResult,
                   childVars, logFileAvail, devicePresent, shellVars>>

\* the log file becomes or stops being creatable
LogFileChange ==
    /\ logFileAvail' = ~logFileAvail
    /\ UNCHANGED <<debugMode, seqVars, fds, lastLine, execVars, forkResult,
                   childVars, terminalAvail, devicePresent, shellVars>>

\* the log storage device path appears or disappears
LogStorageChange ==
    /\ devicePresent' = ~devicePresent
    /\ UNCHANGED <<debugMode, seqVars, fds, lastLine, execVars, forkResult,
                   childVars, terminalAvail, logFileAvail, shellVars>>

\* ------------------------------------------------------------- specification
\* the steps of the parent and of the daemon
ProgramNext ==
    \/ Announce
    \/ RunInitializationReturn
    \/ MainExit
    \/ CreateSymbolicLink
    \/ StartSyncProcess
    \/ RedirectOpen
    \/ DupStdout
    \/ DupStderr
    \/ PollLogStorage
    \/ ExecuteSpawn
    \/ ExecuteWait
    \/ CommandListReturn
    \/ BrowserReturn
    \/ ShellOpenFail
    \/ ShellEndOfInput
    \/ ShellReadFail
    \/ ShellReadLine
    \/ ShellCommandReturn
    \/ ChildSync
    \/ ChildWait

Next ==
    \/ ProgramNext
    \/ TerminalChange
    \/ LogFileChange
    \/ LogStorageChange

Spec == Init /\ [][Next]_vars

\* the parent is never suspended for ever: an iteration of a retry loop, a
\* dup2 call and the announcement of the next step that can be taken are
\* taken eventually
SpecFair ==
    /\ Init
    /\ [][Next]_vars
    /\ WF_vars(RedirectOpen)
    /\ WF_vars(DupStdout)
    /\ WF_vars(DupStderr)
    /\ WF_vars(PollLogStorage)
    /\ WF_vars(Announce)

\* ----------------------- an environment in which the log device never appears
InitNoDevice ==
    /\ Init
    /\ devicePresent = FALSE

NextNoDevice ==
    \/ ProgramNext
    \/ TerminalChange
    \/ LogFileChange

SpecNoDevice == InitNoDevice /\ [][NextNoDevice]_vars

\* ------------------------------------------------- the tokenizer on its own
\* a raw line is handed to parse_shell_command
InitParse ==
    /\ debugMode = TRUE
    /\ pc = "parse_shell_command"
    /\ command \in ParseInputs
    /\ terminalAvail = FALSE
    /\ logFileAvail = FALSE
    /\ devicePresent = FALSE
    /\ InitCommon

\* parse_shell_command returns the tokens of the line
ParseCall ==
    /\ pc = "parse_shell_command"
    /\ command_parts' = parse_shell_command(command)
    /\ pc' = "parsed"
    /\ UNCHANGED <<debugMode, idx, started, completed, initResult, exitCodes, fds,
                   lastLine, command, proc, status, result, forkResult,
                   childVars, envVars, shellVars>>

NextParse == ParseCall

SpecParse == InitParse /\ [][NextParse]_vars

TypeOK ==
    /\ debugMode \in BOOLEAN
    /\ started \in 0..Len(BootSteps)
    /\ completed \in 0..Len(BootSteps)
    /\ initResult \in {"none", "Ok", "Err"}
    /\ exitCodes \subseteq {0, 1}
    /\ \A d \in DOMAIN fds : fds[d] \in Targets
    /\ lastLine.target \in Targets
    /\ status \in {"none", "empty", "spawn_failed", "running", "nonzero", "zero"}
    /\ result \in {"none", "Ok", "Err"}
    /\ forkResult \in {"none", "failed", "parent"}
    /\ childPc \in {"none", "sleep", "wait"}
    /\ daemons \in {0, 1}
    /\ shellExecs \in 0..MaxLines
    /\ Len(linesRead) <= MaxLines
    /\ shellEnd \in {"none", "open_failed", "end_of_input", "read_failed",
                     "exit_command"}

\* ==================================================================== claims
StepFunctions == {BootSteps[k] : k \in DOMAIN BootSteps}

\* the order of the steps as the specification numbers them
NumberedSteps ==
    << "create_symbolic_links", "mount_filesystems", "start_sync_process",
       "redirect_output_to_terminal", "setup_temporary_filesystems",
       "mount_log_storage", "redirect_output_to_log_file",
       "start_browser", "interactive_shell" >>

\* C1: the steps start in the order 1..9, one at a time: a step is announced
\* only when the one before has completed, none is skipped or repeated, the
\* function running is the one the announced number names, and the bodies of
\* steps 6 and 7 run only in debug mode.
C1_StepsInOrder ==
    [][ /\ started' \in {started, started + 1}
        /\ completed' \in {completed, completed + 1}
        /\ started' = started + 1 => completed = started
        /\ completed' = completed + 1 => completed' = started'
        /\ completed' <= started'
        /\ pc' \in StepFunctions => pc' = NumberedSteps[started']
        /\ pc' \in {"mount_log_storage", "redirect_output_to_log_file"} => debugMode
      ]_vars

C1_Witness ==
    /\ debugMode
    /\ completed = 9
    /\ fds[STDOUT_FILE_DESCRIPTOR] = "log"

\* the parent is at the return of a fail-fast command that failed
FailedFailFast ==
    /\ pc \in CommandListSteps
    /\ idx >= 1
    /\ result # "none"
    /\ status \in {"spawn_failed", "nonzero"}

\* C2: when a command of a fail-fast step (2, 5, 6) failed, the next thing
\* the parent does is to return the error from run_initialization (on the
\* way to exit code 1); it starts no later command and no later step.
C2_FailFastAborts ==
    [][ FailedFailFast =>
          \/ FailedFailFast'
          \/ (initResult' = "Err" /\ pc' = "main") ]_vars

\* C3: execute_shell_command returns Ok for an empty token list, a failed
\* spawn, a non-zero exit and a zero exit; it never returns an error and the
\* process has not exited while a call is under way.
C3_ExecutorReturnsOk ==
    /\ result # "Err"
    /\ status \in {"empty", "spawn_failed", "nonzero", "zero"} <=> result = "Ok"
    /\ status # "none" => (exitCodes = {} /\ pc \notin {"main", "exited"})

C3_Witness ==
    /\ status = "nonzero"
    /\ result = "Ok"
    /\ pc = "mount_filesystems"

\* C4: the process exits with 0 only after all nine steps completed and the
\* console loop ended, with 1 exactly when a step returned an error, and
\* never with both.
C4_ExitCodes ==
    /\ Cardinality(exitCodes) <= 1
    /\ exitCodes # {} <=> pc = "exited"
    /\ 0 \in exitCodes => (completed = 9 /\ shellEnd # "none" /\ initResult = "Ok")
    /\ pc = "exited" => (1 \in exitCodes <=> initResult = "Err")
    /\ initResult = "Err" <=> (pc \in {"main", "exited"} /\ completed < started)
    /\ 1 \in exitCodes => initResult = "Err"

C4_Witness ==
    /\ exitCodes = {0}
    /\ shellEnd = "end_of_input"

TargetRank(t) == CASE t = "initial" -> 0 [] t = "console" -> 1 [] t = "log" -> 2

\* the log phase has returned
LogPhaseDone == debugMode /\ completed >= 7

\* C5: each of descriptors 1 and 2 moves only initial -> console -> log, one
\* stage at a time and never back (so at most twice); once the log phase has
\* returned both stay on the log file and every line the parent prints goes
\* to the log file.
C5_TargetOneWay ==
    [][ /\ \A d \in DOMAIN fds :
              TargetRank(fds'[d]) \in {TargetRank(fds[d]), TargetRank(fds[d]) + 1}
        /\ LogPhaseDone =>
              /\ \A d \in DOMAIN fds : fds[d] = "log" /\ fds'[d] = "log"
              /\ lastLine' # lastLine => lastLine'.target = "log"
      ]_vars

C5_Witness ==
    /\ LogPhaseDone
    /\ pc = "interactive_shell"
    /\ lastLine = [text |-> "$ ", target |-> "log"]

\* C6: in debug mode, with a log storage device that never appears, the
\* parent gets to step 6 and no further: steps 7, 8 and 9 never start, and
\* once step 6 has started the parent stays in its wait loop, runs no mount
\* command and the process does not exit.
C6_BlockedAtStepSix ==
    debugMode =>
        /\ started <= 6
        /\ pc \notin {"redirect_output_to_log_file", "start_browser",
                      "interactive_shell"}
        /\ started = 6 =>
              /\ pc = "mount_log_storage"
              /\ idx = 0
              /\ proc = <<>>
              /\ initResult = "none"
              /\ exitCodes = {}

C6_Witness ==
    /\ debugMode
    /\ pc = "mount_log_storage"
    /\ lastLine.text = "Log storage device not ready, waiting..."
    /\ childPc = "wait"

\* C7: a failed fork makes start_sync_process return an error: step 3 does
\* not complete, no later step starts and the only exit code is 1.  After a
\* successful fork the parent has left start_sync_process with step 3
\* completed, whatever the child is doing.
C7_ForkOutcome ==
    /\ forkResult = "failed" =>
          /\ started = 3 /\ completed = 2
          /\ initResult = "Err"
          /\ pc \in {"main", "exited"}
          /\ exitCodes \subseteq {1}
          /\ childPc = "none"
    /\ forkResult = "parent" => (completed >= 3 /\ childPc # "none")
    /\ forkResult = "none" => (completed < 3 /\ childPc = "none")
    /\ pc = "exited" /\ forkResult = "failed" => exitCodes = {1}

C7_Witness ==
    /\ forkResult = "failed"
    /\ exitCodes = {1}

\* a line of white space only
IsBlank(line) == \A i \in DOMAIN line : line[i] \in WhiteSpace

\* the line is the word w surrounded by white space only
IsWord(line, w) ==
    \E i \in 1..Len(line) :
        /\ i + Len(w) - 1 <= Len(line)
        /\ SubSeq(line, i, i + Len(w) - 1) = w
        /\ \A j \in DOMAIN line : (j < i \/ j > i + Len(w) - 1) => line[j] \in WhiteSpace

IsExitLine(line) == IsWord(line, exit_command) \/ IsWord(line, quit_command)

\* the lines read that have to go to the executor
CommandLines == {i \in DOMAIN linesRead : ~IsBlank(linesRead[i]) /\ ~IsExitLine(linesRead[i])}

\* the shell has read a command and not yet called the executor with it
CallPending ==
    IF pc = "interactive_shell" /\ idx = 1 /\ status = "none" THEN 1 ELSE 0

\* C8: the executor is invoked once for each line read that is neither blank
\* nor exit/quit and for no other; exit or quit is the last line read and
\* ends the loop; a blank line and the outcome of a command leave the shell
\* in its loop.
C8_ConsoleLoop ==
    /\ shellExecs + CallPending = Cardinality(CommandLines)
    /\ \A i \in DOMAIN linesRead : IsExitLine(linesRead[i]) => i = Len(linesRead)
    /\ shellEnd = "exit_command" <=>
          (linesRead # <<>> /\ IsExitLine(linesRead[Len(linesRead)]))
    /\ (pc = "interactive_shell" /\ idx = 1) =>
          (~IsBlank(user_command) /\ ~IsExitLine(user_command) /\ shellEnd = "none")
    /\ (linesRead # <<>> /\ IsBlank(linesRead[Len(linesRead)])) =>
          (shellEnd # "exit_command" /\ ~(pc = "interactive_shell" /\ idx = 1))
    /\ shellEnd # "none" <=> completed = 9

C8_Witness ==
    /\ Len(linesRead) = 3
    /\ ~IsBlank(linesRead[1]) /\ IsBlank(linesRead[2]) /\ IsExitLine(linesRead[3])
    /\ shellExecs = 1
    /\ shellEnd = "exit_command"

\* C9: however the console loop ends (end of input, console not opened, read
\* failure, exit/quit), interactive_shell returned success: step 9 is
\* complete, run_initialization returns no error and the exit code is 0.
C9_ShellEndsNormally ==
    shellEnd # "none" =>
        /\ completed = 9
        /\ initResult # "Err"
        /\ exitCodes \subseteq {0}
        /\ pc = "exited" => exitCodes = {0}

C9_Witness ==
    /\ shellEnd = "open_failed"
    /\ exitCodes = {0}

RECURSIVE Flatten(_)
Flatten(tokens) ==
    IF tokens = <<>> THEN <<>> ELSE Head(tokens) \o Flatten(Tail(tokens))

\* number of double quotes before position i of the line
QuotesBefore(line, i) == Cardinality({j \in 1..(i - 1) : line[j] = "\""})

\* position i of the line holds a double quote or a space outside quotes
Removed(line, i) ==
    \/ line[i] = "\""
    \/ line[i] = " " /\ QuotesBefore(line, i) % 2 = 0

RECURSIVE KeptFrom(_, _)
\* the line from position i on without the removed characters
KeptFrom(line, i) ==
    IF i > Len(line) THEN <<>>
    ELSE IF Removed(line, i) THEN KeptFrom(line, i + 1)
    ELSE <<line[i]>> \o KeptFrom(line, i + 1)

IsSuffix(s, t) == Len(s) <= Len(t) /\ SubSeq(t, Len(t) - Len(s) + 1, Len(t)) = s

\* what follows the last double quote of the line
AfterLastQuote(line) ==
    LET quotes == {j \in DOMAIN line : line[j] = "\""}
        last == CHOOSE j \in quotes : \A k \in quotes : k <= j
    IN SubSeq(line, last + 1, Len(line))

\* C10: the tokens are non-empty and hold no double quote; put together
\* they are the line without its double quotes and its spaces outside
\* quotes; after an unterminated quote everything up to the end of the line,
\* spaces included, is the end of the last token.
C10_Tokenizer ==
    pc = "parsed" =>
        /\ \A k \in DOMAIN command_parts :
              /\ command_parts[k] # <<>>
              /\ \A i \in DOMAIN command_parts[k] : command_parts[k][i] # "\""
        /\ Flatten(command_parts) = KeptFrom(command, 1)
        /\ QuotesBefore(command, Len(command) + 1) % 2 = 1 =>
              \/ AfterLastQuote(command) = <<>>
              \/ /\ command_parts # <<>>
                 /\ IsSuffix(AfterLastQuote(command), command_parts[Len(command_parts)])

C10_Witness ==
    /\ pc = "parsed"
    /\ Len(command) = 5
    /\ command = <<"a", " ", "\"", "b", " ">>
    /\ command_parts = << <<"a">>, <<"b", " ">> >>

\* C11: once forked the daemon only sleeps or waits for a sync subprocess,
\* for ever and whatever the sync commands do: the only program it runs is
\* /bin/sync, it never leaves its loop, and a step of the daemon moves nothing
\* of the boot sequence, the console loop or the exit of the process.
C11_DaemonLoopsForever ==
    [][ /\ childPc' \in {"none", "sleep", "wait"}
        /\ childPc # "none" => childPc' # "none"
        /\ childPc' = "wait" <=> childProc' # <<>>
        /\ childProc' # <<>> => childProc' = << <<"/","b","i","n","/","s","y","n","c">> >>
        /\ (childPc # "none" /\ childVars' # childVars) =>
              UNCHANGED <<seqVars, fds, lastLine, execVars, shellVars>>
      ]_vars

C11_Witness ==
    /\ childPc = "sleep"
    /\ childStatus = "nonzero"
    /\ pc = "exited"

\* the parent is in the retry loop of a blocking operation
InTerminalLoop == pc = "redirect_output_to_terminal" /\ idx = 0
InLogFileLoop  == pc = "redirect_output_to_log_file" /\ idx = 0
InDevicePoll   == pc = "mount_log_storage" /\ idx = 0

\* a step taken in a retry loop whose condition is false leaves the parent
\* in the loop, with no error and no step completed
StaysInLoop ==
    /\ pc' = pc
    /\ idx' = 0
    /\ initResult' = "none"
    /\ UNCHANGED <<started, completed, exitCodes, fds>>

\* C12: a blocking-retry operation (terminal phase, log phase, device poll)
\* leaves its loop only on a look that found its condition true, and while
\* the condition is false it stays in the loop without error; if the
\* condition becomes true and stays true, the operation returns and the
\* sequence goes on (next step announced, mount commands reached).
C12_BlockingRetry ==
    /\ [][ /\ (InTerminalLoop /\ ~terminalAvail) => StaysInLoop
           /\ (InLogFileLoop /\ ~logFileAvail) => StaysInLoop
           /\ (InDevicePoll /\ ~devicePresent) => StaysInLoop
         ]_vars
    /\ (<>[]terminalAvail) => (InTerminalLoop ~> started >= 5)
    /\ (<>[]logFileAvail) => (InLogFileLoop ~> started >= 8)
    /\ (<>[]devicePresent) => (InDevicePoll ~> (pc = "mount_log_storage" /\ idx = 1))

C12_Witness ==
    /\ InLogFileLoop
    /\ lastLine.text = "Failed to redirect to a log file!"
    /\ logFileAvail

RedirectPhases == {"redirect_output_to_terminal", "redirect_output_to_log_file"}

\* a phase has duplicated onto descriptor 1 and not yet onto descriptor 2
MidSwitch(p, i) == p \in RedirectPhases /\ i = STDERR_FILE_DESCRIPTOR

\* the target that was active when a phase was entered
TargetBefore(p) == IF p = "redirect_output_to_terminal" THEN "initial" ELSE "console"
\* the target a phase switches to
TargetAfter(p) == IF p = "redirect_output_to_terminal" THEN "console" ELSE "log"

\* C13: a phase opens, then duplicates onto descriptor 1, then onto
\* descriptor 2, then returns.  Every line printed inside a phase (the
\* failed attempts, the line after the open) goes to the target that was
\* active before it, every line printed after the phase returned goes to
\* the new target, and descriptors 1 and 2 have the same target except
\* between the two duplications.
C13_SwitchOrder ==
    [][ /\ (pc \in RedirectPhases /\ idx = 0 /\ idx' # 0) =>
              (idx' = STDOUT_FILE_DESCRIPTOR /\ pc' = pc /\ fds' = fds)
        /\ (pc \in RedirectPhases /\ idx = STDOUT_FILE_DESCRIPTOR /\ idx' # idx) =>
              /\ idx' = STDERR_FILE_DESCRIPTOR /\ pc' = pc
              /\ fds'[STDOUT_FILE_DESCRIPTOR] = TargetAfter(pc)
              /\ fds'[STDERR_FILE_DESCRIPTOR] = TargetBefore(pc)
        /\ (pc \in RedirectPhases /\ idx = STDERR_FILE_DESCRIPTOR /\ idx' # idx) =>
              /\ completed' = started /\ pc' = "run_initialization"
              /\ \A d \in DOMAIN fds : fds'[d] = TargetAfter(pc)
        /\ lastLine' # lastLine =>
              /\ pc' \in RedirectPhases => lastLine'.target = TargetBefore(pc')
              /\ (pc' \notin RedirectPhases /\ completed' >= 4 /\ ~(debugMode /\ completed' >= 7))
                    => lastLine'.target = "console"
              /\ (debugMode /\ completed' >= 7) => lastLine'.target = "log"
        /\ ~MidSwitch(pc', idx') =>
              fds'[STDOUT_FILE_DESCRIPTOR] = fds'[STDERR_FILE_DESCRIPTOR]
      ]_vars

C13_Witness ==
    /\ lastLine = [text |-> "Failed to redirect to a log file!", target |-> "console"]
    /\ terminalAvail
    /\ ~logFileAvail

\* C14: whatever each of the three links does (created or failed), the loop
\* of step 1 goes on to the next link and then returns Ok, after which step
\* 2 is started; whatever the browser launch of step 8 does (spawn failure,
\* non-zero or zero exit), step 8 returns Ok, after which the console loop
\* of step 9 is started.
C14_BestEffortSteps ==
    [][ /\ (pc = "create_symbolic_links" /\ lastLine'.text \in {"Created link", "Failed to create link"}
            /\ <<pc, idx>>' # <<pc, idx>>) =>
              /\ initResult' = "none"
              /\ IF idx < 3
                 THEN pc' = pc /\ idx' = idx + 1
                 ELSE pc' = "run_initialization" /\ completed' = 1
        /\ (pc = "create_symbolic_links") => pc' \in {"create_symbolic_links", "run_initialization"}
        /\ (pc = "run_initialization" /\ completed = 1 /\ pc' # pc) =>
              (pc' = "mount_filesystems" /\ started' = 2)
        /\ (pc = "start_browser" /\ pc' # pc) =>
              /\ status \in {"spawn_failed", "nonzero", "zero"}
              /\ pc' = "run_initialization" /\ completed' = 8
              /\ initResult' = "none"
        /\ (pc = "run_initialization" /\ completed = 8 /\ pc' # pc) =>
              (pc' = "interactive_shell" /\ started' = 9)
      ]_vars

C14_Witness ==
    /\ pc = "run_initialization"
    /\ completed = 8
    /\ command = browser_command
    /\ lastLine.text = "Failed to execute command"

\* C15: the executor tries to spawn a subprocess exactly when the line has
\* tokens; the program is the first token as it is when it begins with '/',
\* and "/bin/" followed by the first token otherwise; the other tokens are
\* the arguments, in their order.
C15_SpawnedProgram ==
    /\ status = "empty" => (command_parts = <<>> /\ proc = <<>>)
    /\ status \in {"running", "spawn_failed", "nonzero", "zero"} => command_parts # <<>>
    /\ status = "running" <=> proc # <<>>
    /\ proc # <<>> =>
          /\ Len(proc) = Len(command_parts)
          /\ \A k \in 2..Len(proc) : proc[k] = command_parts[k]
          /\ IF Head(command_parts[1]) = "/"
             THEN proc[1] = command_parts[1]
             ELSE proc[1] = <<"/","b","i","n","/">> \o command_parts[1]
    /\ (proc # <<>> /\ command = <<"l","s">>) => proc = << <<"/","b","i","n","/","l","s">> >>
    /\ (proc # <<>> /\ pc = "start_browser") =>
          (proc[1] = BROWSER_EXECUTABLE_PATH /\ proc[Len(proc)] = BROWSER_DEFAULT_URL
           /\ Len(proc) = Len(BROWSER_ARGUMENTS) + 2)

C15_Witness ==
    /\ pc = "interactive_shell"
    /\ proc = << <<"/","b","i","n","/","e","x","i","t">>, <<"l","s">> >>

\* C16: the log storage mount and the log phase run only in debug mode; the
\* wait loop of the mount is left only on a look that found the device, and
\* the log phase is entered only with step 6 complete and the device mount
\* as the last command run.  Without debug mode no descriptor and no line
\* ever goes to the log file, and from the end of step 4 on both descriptors
\* stay on the console.
C16_LogOnlyInDebug ==
    [][ /\ pc' \in {"mount_log_storage", "redirect_output_to_log_file"} => debugMode
        /\ (pc = "mount_log_storage" /\ idx = 0 /\ idx' # 0) => devicePresent
        /\ (pc' = "redirect_output_to_log_file" /\ pc # pc') =>
              /\ completed = 6
              /\ command = <<"m","o","u","n","t"," ","/","d","e","v","/","s","d","a","1"," ","/","m","n","t">>
              /\ status = "none" /\ proc = <<>>
        /\ ~debugMode =>
              /\ \A d \in DOMAIN fds : fds'[d] # "log"
              /\ lastLine'.target # "log"
              /\ completed' >= 4 => \A d \in DOMAIN fds : fds'[d] = "console"
      ]_vars

C16_Witness ==
    /\ ~debugMode
    /\ pc = "interactive_shell"
    /\ idx = 1
    /\ lastLine = [text |-> "$ ", target |-> "console"]

\* executor subprocesses in flight in the whole system
InFlight ==
    (IF proc # <<>> THEN 1 ELSE 0) + (IF childProc # <<>> THEN 1 ELSE 0)

\* C17: while a subprocess of the parent is in flight the parent does
\* nothing but wait for it (so it never has two); one daemon at most is
\* forked, by the parent in step 3, and none after it; the daemon runs its
\* commands only once step 3 is complete, so at most two executor
\* subprocesses are in flight, one of the parent and one of the daemon.
C17_OneSubprocessEach ==
    [][ /\ proc # <<>> =>
              \/ UNCHANGED <<seqVars, execVars, shellVars, fds, lastLine>>
              \/ (proc' = <<>> /\ result' # "none" /\ UNCHANGED <<seqVars, shellVars, fds>>)
        /\ (proc' # <<>> /\ proc = <<>>) => (result = "none" /\ status = "none")
        /\ daemons' <= 1
        /\ daemons' = 1 <=> childPc' # "none"
        /\ daemons' # daemons => (pc = "start_sync_process" /\ childPc = "none")
        /\ childProc' # <<>> => completed' >= 3
        /\ InFlight' <= 2
      ]_vars

C17_Witness ==
    /\ pc = "setup_temporary_filesystems"
    /\ proc # <<>>
    /\ childProc # <<>>

\* C18: the daemon keeps the descriptors it was forked with, and these are
\* the initial ones: whatever the parent's phases do to the parent's
\* descriptors, every line of the daemon goes to the initial target.
C18_DaemonKeepsInitialTarget ==
    childPc # "none" =>
        /\ \A d \in DOMAIN childFds : childFds[d] = "initial"
        /\ childLastLine.target = "initial"

C18_Witness ==
    /\ fds[STDOUT_FILE_DESCRIPTOR] = "log"
    /\ childLastLine = [text |-> "Command failed with exit code", target |-> "initial"]

\* C19: while the browser subprocess of step 8 is in flight the parent is in
\* start_browser and has read no console line and run no operator command;
\* the console loop runs only with step 8 complete, and the only subprocess
\* the parent then has is the operator command it is executing.
C19_ShellAfterBrowser ==
    /\ (pc = "start_browser" /\ proc # <<>>) =>
          (started = 8 /\ completed = 7 /\ linesRead = <<>> /\ shellExecs = 0)
    /\ pc = "interactive_shell" =>
          /\ completed = 8
          /\ proc # <<>> => (idx = 1 /\ command = Trim(user_command))
    /\ (linesRead # <<>> \/ shellExecs > 0) => completed >= 8

C19_Witness ==
    /\ pc = "start_browser"
    /\ proc # <<>>
    /\ proc[1] = BROWSER_EXECUTABLE_PATH
    /\ childPc = "wait"

\* C20: in debug mode, all the time the console loop prompts or executes,
\* and when it has ended, descriptors 1 and 2 of the parent are on the log
\* file and the last line printed (prompt, farewell, executor diagnostics)
\* went to the log file, not to the console.
C20_ShellWritesToLog ==
    (debugMode /\ (pc = "interactive_shell" \/ shellEnd # "none")) =>
        /\ \A d \in DOMAIN fds : fds[d] = "log"
        /\ lastLine.target = "log"

C20_Witness ==
    /\ debugMode
    /\ shellEnd = "exit_command"
    /\ lastLine = [text |-> "Exiting interactive shell...", target |-> "log"]

====
